---- MODULE Spec2Model ----
(***************************************************************************)
(* colliding_particles_threaded (src/main.rs): a fixed buffer of particles *)
(* behind one Mutex, THREAD_COUNT mover threads that each randomise a      *)
(* private copy of their chunk and copy it back under the lock, one        *)
(* collision thread that snapshots the buffer under the lock and counts    *)
(* overlapping pairs, and main, which partitions, spawns, joins and dumps. *)
(*                                                                         *)
(* Coordinates are f32 in the source.  Here they are fixed-point integers  *)
(* in hundredths of a length unit (Unit = 100), so squared distances are   *)
(* in units of 1/10000 and the threshold 0.01 is 100.  A draw of           *)
(* random::<f32>() in [0,1) is k/Unit for an integer k in 0..Unit-1.       *)
(* Time is an integer number of clock ticks (seconds); a worker's          *)
(* start_time.elapsed() is kept directly, and stops being counted once it  *)
(* has reached the configured duration (the loop test cannot tell more).   *)
(***************************************************************************)
EXTENDS Integers, Sequences, FiniteSets, TLC

\* ---- program constants (main.rs:6-16) ----
THREAD_COUNT == 10
COLLISION_THREAD_COUNT == 1
PARTICLE_COUNT == 100
ENCLOSURE_W == 10
ENCLOSURE_H == 10
Unit == 100
PARTICLE_RADIUS_SQUARED == (Unit * Unit) \div 100
SIMULATION_TIME_SECONDS == 10
\* The top value of the mover's u32 iteration counter (line 79).  TLC's
\* integers are 32-bit signed, so the model's counter tops at 2^31 - 1 instead
\* of 2^32 - 1; only "the counter is at its top value" matters to iterations += 1.
U32Max == 2147483647

\* ---- bounds of the model ----
MaxParticles == 3
MaxThreads == 2
MaxSimulationTime == 1
MaxRandom == 1
MaxIterations == 1
MaxCollisionCount == 4
MaxPartitionParticles == 12
MaxPartitionThreads == 5
MaxGridCoord == 10
MaxDumpParticles == 16
MaxDeadlineIterations == 3

VARIABLES
    particle_count,   \* configured PARTICLE_COUNT of this run
    thread_count,     \* configured THREAD_COUNT of this run
    simulation_time,  \* configured SIMULATION_TIME_SECONDS of this run
    particles,        \* ParticleSystem.particles, indexed 0..len-1
    lock_holder,      \* the Mutex: who owns the guard, or NoHolder
    main_pc, particles_len, chunk_size, spawn_i, stdout,
    move_pc, chunk_idx, chunk_len, move_elapsed, iterations, local_chunk,
    coll_pc, coll_elapsed, collision_count, snapshot, scan_i, scan_j,
    committed,        \* history: the chunk each mover last copied back whole
    scan_base,        \* history: collision_count when the current scan began
    late_copy_backs,  \* history: copy-backs a mover completed at or after its deadline
    poisoned          \* the Mutex: a holder panicked while it held the guard

config_vars == <<particle_count, thread_count, simulation_time>>
main_vars == <<main_pc, particles_len, chunk_size, spawn_i, stdout>>
move_vars == <<move_pc, chunk_idx, chunk_len, move_elapsed, iterations, local_chunk>>
coll_vars == <<coll_pc, coll_elapsed, collision_count, snapshot, scan_i, scan_j, scan_base>>
vars == <<config_vars, particles, lock_holder, main_vars, move_vars, coll_vars, committed, late_copy_backs, poisoned>>

NoHolder == <<"none", 0>>
MainThread == <<"main", 0>>
MoveThread(m) == <<"move", m>>
CollisionThread(c) == <<"collision", c>>

Movers == 0 .. (thread_count - 1)
Colliders == 0 .. (COLLISION_THREAD_COUNT - 1)

\* ---- struct Particle and its collision test ----
Particle(px, py) == [x |-> px, y |-> py]

\* variant: the comparison is <= instead of <
perform_collision_check_inclusive(self, other_particle) ==
    LET dist_x == self.x - other_particle.x
        dist_y == self.y - other_particle.y
        squared_distance == dist_x * dist_x + dist_y * dist_y
    IN  squared_distance <= PARTICLE_RADIUS_SQUARED

perform_collision_check(self, other_particle) ==
    LET dist_x == self.x - other_particle.x
        dist_y == self.y - other_particle.y
        squared_distance == dist_x * dist_x + dist_y * dist_y
    IN  squared_distance < PARTICLE_RADIUS_SQUARED

\* ---- ParticleSystem ----
ParticleSystem_new(count) == [i \in 0 .. (count - 1) |-> Particle(0, 0)]

VecLen(v) == Cardinality(DOMAIN v)

\* v[start .. start + len].to_vec()
SliceToVec(v, start, len) == [k \in 0 .. (len - 1) |-> v[start + k]]

\* variant: the destination slice is taken from index 0, not from start
CopyFromSliceAtZero(v, start, len, chunk) ==
    [i \in DOMAIN v |-> IF i < len THEN chunk[i] ELSE v[i]]

\* v[start .. start + len].copy_from_slice(chunk)
CopyFromSlice(v, start, len, chunk) ==
    [i \in DOMAIN v |-> IF i >= start /\ i < start + len THEN chunk[i - start] ELSE v[i]]

\* debug_print_particles: the lines written to stdout.  An entry ends its
\* line (println!) when i % 5 == 0 && i != 0; the final println!("\n----")
\* ends whatever line is open and writes the separator.
RECURSIVE DumpLines(_, _, _, _)
DumpLines(v, i, done, open) ==
    IF i >= VecLen(v)
    THEN Append(Append(done, open), <<"----">>)
    ELSE LET entry == <<i, v[i].x, v[i].y>>
         IN  IF i % 5 = 0 /\ i # 0
             THEN DumpLines(v, i + 1, Append(done, Append(open, entry)), <<>>)
             ELSE DumpLines(v, i + 1, done, Append(open, entry))

debug_print_particles(v) == DumpLines(v, 0, <<>>, <<>>)

\* ---- the random source and random_move_particles ----
RandomValues == 0 .. MaxRandom

\* one particle after p.x = random() * ENCLOSURE_W; p.y = random() * ENCLOSURE_H
MovedParticles ==
    { Particle(rx * ENCLOSURE_W, ry * ENCLOSURE_H) : rx \in RandomValues, ry \in RandomValues }

random_move_particles(len) == [0 .. (len - 1) -> MovedParticles]

\* ---- std::sync::Mutex ----
\* variant: lock() that does not wait for the current holder
MutexLockNoWait(t) == lock_holder' = t

\* variant: the guard is leaked, the mutex stays locked
MutexUnlockLeak(t) == lock_holder' = lock_holder

\* variant: the PoisonError is ignored (into_inner) and the guard is used
MutexLockIgnorePoison(t) == lock_holder = NoHolder /\ lock_holder' = t

\* lock().unwrap() that returns a guard: the mutex is free and not poisoned
MutexLock(t) == lock_holder = NoHolder /\ ~poisoned /\ lock_holder' = t

MutexUnlock(t) == lock_holder' = NoHolder

\* ---- the clock ----
Min(a, b) == IF a < b THEN a ELSE b

MoverRunning(m) == move_pc[m] \notin {"unspawned", "queued", "report", "finished", "panicked"}
ColliderRunning(c) == coll_pc[c] \notin {"unspawned", "queued", "report", "finished", "panicked"}

\* One tick of the monotonic clock: every running worker's elapsed time grows.
\* The clock is only read by running workers, so a tick that no running worker
\* below its deadline could observe is left out.
Tick ==
    /\ \/ \E m \in Movers : MoverRunning(m) /\ move_elapsed[m] < simulation_time
       \/ \E c \in Colliders : ColliderRunning(c) /\ coll_elapsed[c] < simulation_time
    /\ move_elapsed' = [m \in Movers |->
           IF MoverRunning(m) THEN Min(move_elapsed[m] + 1, simulation_time) ELSE move_elapsed[m]]
    /\ coll_elapsed' = [c \in Colliders |->
           IF ColliderRunning(c) THEN Min(coll_elapsed[c] + 1, simulation_time) ELSE coll_elapsed[c]]
    /\ UNCHANGED <<config_vars, particles, lock_holder, main_vars, move_pc, chunk_idx, chunk_len,
                   iterations, local_chunk, coll_pc, collision_count, snapshot, scan_i, scan_j,
                   scan_base, committed, late_copy_backs, poisoned>>

\* ---- main ----
\* particle_system_mut.lock().unwrap()  (line 125)
MainLockLen ==
    /\ main_pc = "lock_len"
    /\ MutexLock(MainThread)
    /\ main_pc' = "read_len"
    /\ UNCHANGED <<config_vars, particles, particles_len, chunk_size, spawn_i, stdout,
                   move_vars, coll_vars, committed, late_copy_backs, poisoned>>

\* .particles.len(); the temporary guard is dropped; chunk_size; the pools
MainReadLen ==
    /\ main_pc = "read_len"
    /\ particles_len' = VecLen(particles)
    /\ MutexUnlock(MainThread)
    /\ chunk_size' = VecLen(particles) \div thread_count
    /\ spawn_i' = 0
    /\ main_pc' = "spawn_move"
    /\ UNCHANGED <<config_vars, particles, stdout, move_vars, coll_vars, committed, late_copy_backs, poisoned>>

\* variant: the chunk index is not scaled by the chunk size
ChunkIdxUnscaled(i, size) == i

ChunkIdx(i, size) == i * size

\* variant: no clamp
ChunkLenUnclamped(i, size, len) == size

\* variant: the clamp keeps the last index (len instead of len - 1)
ChunkLenToEnd(i, size, len) ==
    IF ChunkIdx(i, size) + size > len THEN len - ChunkIdx(i, size) ELSE size

ChunkLen(i, size, len) ==
    IF ChunkIdx(i, size) + size > len - 1 THEN len - ChunkIdx(i, size) - 1 ELSE size

\* one pass of "for i in 0..THREAD_COUNT" (lines 133-144)
MainSpawnMover ==
    /\ main_pc = "spawn_move"
    /\ spawn_i < thread_count
    /\ chunk_idx' = [chunk_idx EXCEPT ![spawn_i] = ChunkIdx(spawn_i, chunk_size)]
    /\ chunk_len' = [chunk_len EXCEPT ![spawn_i] = ChunkLen(spawn_i, chunk_size, particles_len)]
    /\ move_pc' = [move_pc EXCEPT ![spawn_i] = "queued"]
    /\ IF spawn_i + 1 < thread_count
       THEN spawn_i' = spawn_i + 1 /\ main_pc' = main_pc
       ELSE spawn_i' = 0 /\ main_pc' = "spawn_collision"
    /\ UNCHANGED <<config_vars, particles, lock_holder, particles_len, chunk_size, stdout,
                   move_elapsed, iterations, local_chunk, coll_vars, committed, late_copy_backs, poisoned>>

\* one pass of "for i in 0..COLLISION_THREAD_COUNT" (lines 147-151)
MainSpawnCollision ==
    /\ main_pc = "spawn_collision"
    /\ spawn_i < COLLISION_THREAD_COUNT
    /\ coll_pc' = [coll_pc EXCEPT ![spawn_i] = "queued"]
    /\ IF spawn_i + 1 < COLLISION_THREAD_COUNT
       THEN spawn_i' = spawn_i + 1 /\ main_pc' = main_pc
       ELSE spawn_i' = 0 /\ main_pc' = "join_pool"
    /\ UNCHANGED <<config_vars, particles, lock_holder, particles_len, chunk_size, stdout,
                   move_vars, coll_elapsed, collision_count, snapshot, scan_i, scan_j, scan_base,
                   committed, late_copy_backs, poisoned>>

\* variant: main does not wait for the mover pool
MainJoinPoolNoWait ==
    /\ main_pc = "join_pool"
    /\ main_pc' = "join_collision"
    /\ UNCHANGED <<config_vars, particles, lock_holder, particles_len, chunk_size, spawn_i,
                   stdout, move_vars, coll_vars, committed, late_copy_backs, poisoned>>

\* pool.join(): every job has returned, or has panicked and been given up
MainJoinPool ==
    /\ main_pc = "join_pool"
    /\ \A m \in Movers : move_pc[m] \in {"finished", "panicked"}
    /\ main_pc' = "join_collision"
    /\ UNCHANGED <<config_vars, particles, lock_holder, particles_len, chunk_size, spawn_i,
                   stdout, move_vars, coll_vars, committed, late_copy_backs, poisoned>>

\* collision_pool.join()
MainJoinCollision ==
    /\ main_pc = "join_collision"
    /\ \A c \in Colliders : coll_pc[c] \in {"finished", "panicked"}
    /\ main_pc' = "lock_dump"
    /\ UNCHANGED <<config_vars, particles, lock_holder, particles_len, chunk_size, spawn_i,
                   stdout, move_vars, coll_vars, committed, late_copy_backs, poisoned>>

\* let system = particle_system_mut.lock().unwrap()  (line 157)
MainLockDump ==
    /\ main_pc = "lock_dump"
    /\ MutexLock(MainThread)
    /\ main_pc' = "dump"
    /\ UNCHANGED <<config_vars, particles, particles_len, chunk_size, spawn_i, stdout,
                   move_vars, coll_vars, committed, late_copy_backs, poisoned>>

\* system.debug_print_particles()
MainDump ==
    /\ main_pc = "dump"
    /\ stdout' = debug_print_particles(particles)
    /\ main_pc' = "exit"
    /\ UNCHANGED <<config_vars, particles, lock_holder, particles_len, chunk_size, spawn_i,
                   move_vars, coll_vars, committed, late_copy_backs, poisoned>>

\* end of main: the guard goes out of scope
MainExit ==
    /\ main_pc = "exit"
    /\ MutexUnlock(MainThread)
    /\ main_pc' = "done"
    /\ UNCHANGED <<config_vars, particles, particles_len, chunk_size, spawn_i, stdout,
                   move_vars, coll_vars, committed, late_copy_backs, poisoned>>

\* line 157 on a poisoned mutex: lock() returns Err, unwrap() panics and the
\* guard inside the error is dropped
MainLockDumpPoisoned ==
    /\ main_pc = "lock_dump"
    /\ lock_holder = NoHolder /\ poisoned
    /\ main_pc' = "panicked"
    /\ UNCHANGED <<config_vars, particles, lock_holder, particles_len, chunk_size, spawn_i, stdout,
                   move_vars, coll_vars, committed, late_copy_backs, poisoned>>

Main ==
    \/ MainLockLen \/ MainReadLen \/ MainSpawnMover \/ MainSpawnCollision
    \/ MainJoinPool \/ MainJoinCollision \/ MainLockDump \/ MainDump \/ MainExit

\* ---- move_thread_main(particle_system, start, len) ----
\* the pool runs the job: iterations = 0; start_time = Instant::now()
MoverStart(m) ==
    /\ move_pc[m] = "queued"
    /\ iterations' = [iterations EXCEPT ![m] = 0]
    /\ move_elapsed' = [move_elapsed EXCEPT ![m] = 0]
    /\ move_pc' = [move_pc EXCEPT ![m] = "lock_init"]
    /\ UNCHANGED <<config_vars, particles, lock_holder, main_vars, chunk_idx, chunk_len,
                   local_chunk, coll_vars, committed, late_copy_backs, poisoned>>

\* let system = particle_system.lock().unwrap()  (line 83)
MoverLockInit(m) ==
    /\ move_pc[m] = "lock_init"
    /\ MutexLock(MoveThread(m))
    /\ move_pc' = [move_pc EXCEPT ![m] = "copy_out"]
    /\ UNCHANGED <<config_vars, particles, main_vars, chunk_idx, chunk_len, move_elapsed,
                   iterations, local_chunk, coll_vars, committed, late_copy_backs, poisoned>>

\* system.particles[start..start + len].to_vec(); the guard is dropped
MoverCopyOut(m) ==
    /\ move_pc[m] = "copy_out"
    /\ local_chunk' = [local_chunk EXCEPT ![m] = SliceToVec(particles, chunk_idx[m], chunk_len[m])]
    /\ MutexUnlock(MoveThread(m))
    /\ move_pc' = [move_pc EXCEPT ![m] = "loop"]
    /\ UNCHANGED <<config_vars, particles, main_vars, chunk_idx, chunk_len, move_elapsed,
                   iterations, coll_vars, committed, late_copy_backs, poisoned>>

\* variant: the loop test is <= instead of <
MoverLoopInclusive(m) ==
    /\ move_pc[m] = "loop"
    /\ IF move_elapsed[m] <= simulation_time
       THEN iterations[m] < MaxIterations /\ move_pc' = [move_pc EXCEPT ![m] = "move"]
       ELSE move_pc' = [move_pc EXCEPT ![m] = "report"]
    /\ UNCHANGED <<config_vars, particles, lock_holder, main_vars, chunk_idx, chunk_len,
                   move_elapsed, iterations, local_chunk, coll_vars, committed, late_copy_backs, poisoned>>

\* while start_time.elapsed().as_secs_f32() < SIMULATION_TIME_SECONDS
MoverLoop(m) ==
    /\ move_pc[m] = "loop"
    /\ IF move_elapsed[m] < simulation_time
       THEN iterations[m] < MaxIterations /\ move_pc' = [move_pc EXCEPT ![m] = "move"]
       ELSE move_pc' = [move_pc EXCEPT ![m] = "report"]
    /\ UNCHANGED <<config_vars, particles, lock_holder, main_vars, chunk_idx, chunk_len,
                   move_elapsed, iterations, local_chunk, coll_vars, committed, late_copy_backs, poisoned>>

\* variant of the loop test below: <= instead of <
MoverLoopUpToInclusive(m, cap) ==
    /\ move_pc[m] = "loop"
    /\ IF move_elapsed[m] <= simulation_time
       THEN iterations[m] < cap /\ move_pc' = [move_pc EXCEPT ![m] = "move"]
       ELSE move_pc' = [move_pc EXCEPT ![m] = "report"]
    /\ UNCHANGED <<config_vars, particles, lock_holder, main_vars, chunk_idx, chunk_len,
                   move_elapsed, iterations, local_chunk, coll_vars, committed, late_copy_backs, poisoned>>

\* the loop test of line 87 in a run that lets a mover make up to cap iterations
MoverLoopUpTo(m, cap) ==
    /\ move_pc[m] = "loop"
    /\ IF move_elapsed[m] < simulation_time
       THEN iterations[m] < cap /\ move_pc' = [move_pc EXCEPT ![m] = "move"]
       ELSE move_pc' = [move_pc EXCEPT ![m] = "report"]
    /\ UNCHANGED <<config_vars, particles, lock_holder, main_vars, chunk_idx, chunk_len,
                   move_elapsed, iterations, local_chunk, coll_vars, committed, late_copy_backs, poisoned>>

\* random_move_particles(&mut local_chunk)
MoverRandomMove(m) ==
    /\ move_pc[m] = "move"
    /\ \E moved \in random_move_particles(chunk_len[m]) :
           local_chunk' = [local_chunk EXCEPT ![m] = moved]
    /\ move_pc' = [move_pc EXCEPT ![m] = "lock_write"]
    /\ UNCHANGED <<config_vars, particles, lock_holder, main_vars, chunk_idx, chunk_len,
                   move_elapsed, iterations, coll_vars, committed, late_copy_backs, poisoned>>

\* let mut system = particle_system.lock().unwrap()  (line 90)
MoverLockWrite(m) ==
    /\ move_pc[m] = "lock_write"
    /\ MutexLock(MoveThread(m))
    /\ move_pc' = [move_pc EXCEPT ![m] = "copy_back"]
    /\ UNCHANGED <<config_vars, particles, main_vars, chunk_idx, chunk_len, move_elapsed,
                   iterations, local_chunk, coll_vars, committed, late_copy_backs, poisoned>>

\* system.particles[start .. start + len].copy_from_slice(&local_chunk)
MoverCopyBack(m) ==
    /\ move_pc[m] = "copy_back"
    /\ particles' = CopyFromSlice(particles, chunk_idx[m], chunk_len[m], local_chunk[m])
    /\ committed' = [committed EXCEPT ![m] = local_chunk[m]]
    /\ late_copy_backs' = [late_copy_backs EXCEPT ![m] =
           IF move_elapsed[m] >= simulation_time THEN late_copy_backs[m] + 1
           ELSE late_copy_backs[m]]
    /\ move_pc' = [move_pc EXCEPT ![m] = "increment"]
    /\ UNCHANGED <<config_vars, lock_holder, main_vars, chunk_idx, chunk_len, move_elapsed,
                   iterations, local_chunk, coll_vars, poisoned>>

\* iterations += 1 with a guard that outlives the loop body
MoverIncrementKeepGuard(m) ==
    /\ move_pc[m] = "increment"
    /\ iterations[m] < U32Max
    /\ iterations' = [iterations EXCEPT ![m] = iterations[m] + 1]
    /\ move_pc' = [move_pc EXCEPT ![m] = "loop"]
    /\ UNCHANGED <<config_vars, particles, lock_holder, main_vars, chunk_idx, chunk_len,
                   move_elapsed, local_chunk, coll_vars, committed, late_copy_backs, poisoned>>

\* iterations += 1; the guard is dropped at the end of the loop body
MoverIncrement(m) ==
    /\ move_pc[m] = "increment"
    /\ iterations[m] < U32Max
    /\ iterations' = [iterations EXCEPT ![m] = iterations[m] + 1]
    /\ MutexUnlock(MoveThread(m))
    /\ move_pc' = [move_pc EXCEPT ![m] = "loop"]
    /\ UNCHANGED <<config_vars, particles, main_vars, chunk_idx, chunk_len, move_elapsed,
                   local_chunk, coll_vars, committed, late_copy_backs, poisoned>>

\* iterations += 1 at u32::MAX with overflow checks (a debug build): the
\* thread panics while it holds the guard, which poisons the mutex as the
\* guard is dropped
MoverIncrementPanic(m) ==
    /\ move_pc[m] = "increment"
    /\ iterations[m] = U32Max
    /\ poisoned' = TRUE
    /\ MutexUnlock(MoveThread(m))
    /\ move_pc' = [move_pc EXCEPT ![m] = "panicked"]
    /\ UNCHANGED <<config_vars, particles, main_vars, chunk_idx, chunk_len, move_elapsed,
                   iterations, local_chunk, coll_vars, committed, late_copy_backs>>

\* iterations += 1 at u32::MAX without overflow checks (a release build): wraps
MoverIncrementWrap(m) ==
    /\ move_pc[m] = "increment"
    /\ iterations[m] = U32Max
    /\ iterations' = [iterations EXCEPT ![m] = 0]
    /\ MutexUnlock(MoveThread(m))
    /\ move_pc' = [move_pc EXCEPT ![m] = "loop"]
    /\ UNCHANGED <<config_vars, particles, main_vars, chunk_idx, chunk_len, move_elapsed,
                   local_chunk, coll_vars, committed, late_copy_backs, poisoned>>

\* lines 83 and 90 on a poisoned mutex: lock() returns Err and unwrap() panics
MoverLockPoisoned(m) ==
    /\ move_pc[m] \in {"lock_init", "lock_write"}
    /\ lock_holder = NoHolder /\ poisoned
    /\ move_pc' = [move_pc EXCEPT ![m] = "panicked"]
    /\ UNCHANGED <<config_vars, particles, lock_holder, main_vars, chunk_idx, chunk_len,
                   move_elapsed, iterations, local_chunk, coll_vars, committed, late_copy_backs,
                   poisoned>>

\* println!("Ran {} in {}s", ...); the job returns
MoverReport(m) ==
    /\ move_pc[m] = "report"
    /\ move_pc' = [move_pc EXCEPT ![m] = "finished"]
    /\ UNCHANGED <<config_vars, particles, lock_holder, main_vars, chunk_idx, chunk_len,
                   move_elapsed, iterations, local_chunk, coll_vars, committed, late_copy_backs, poisoned>>

Mover(m) ==
    \/ MoverStart(m) \/ MoverLockInit(m) \/ MoverCopyOut(m) \/ MoverLoop(m)
    \/ MoverRandomMove(m) \/ MoverLockWrite(m) \/ MoverCopyBack(m) \/ MoverIncrement(m)
    \/ MoverReport(m)

\* ---- collision_thread_main(particle_system) ----
\* the pool runs the job: start_time = Instant::now(); collision_count = 0
CollisionStart(c) ==
    /\ coll_pc[c] = "queued"
    /\ coll_elapsed' = [coll_elapsed EXCEPT ![c] = 0]
    /\ collision_count' = [collision_count EXCEPT ![c] = 0]
    /\ coll_pc' = [coll_pc EXCEPT ![c] = "loop"]
    /\ UNCHANGED <<config_vars, particles, lock_holder, main_vars, move_vars,
                   snapshot, scan_i, scan_j, scan_base, committed, late_copy_backs, poisoned>>

\* while start_time.elapsed().as_secs_f32() < SIMULATION_TIME_SECONDS
CollisionLoop(c) ==
    /\ coll_pc[c] = "loop"
    /\ IF coll_elapsed[c] < simulation_time
       THEN collision_count[c] < MaxCollisionCount /\ coll_pc' = [coll_pc EXCEPT ![c] = "lock"]
       ELSE coll_pc' = [coll_pc EXCEPT ![c] = "report"]
    /\ UNCHANGED <<config_vars, particles, lock_holder, main_vars, move_vars,
                   coll_elapsed, collision_count, snapshot, scan_i, scan_j, scan_base, committed, late_copy_backs, poisoned>>

\* let system = particle_system.lock().unwrap()  (line 107)
CollisionLock(c) ==
    /\ coll_pc[c] = "lock"
    /\ MutexLock(CollisionThread(c))
    /\ snapshot' = [snapshot EXCEPT ![c] = <<>>]
    /\ coll_pc' = [coll_pc EXCEPT ![c] = "to_vec"]
    /\ UNCHANGED <<config_vars, particles, main_vars, move_vars,
                   coll_elapsed, collision_count, scan_i, scan_j, scan_base, committed, late_copy_backs, poisoned>>

\* system.particles.to_vec(), one element clone at a time, under the guard
CollisionToVec(c) ==
    /\ coll_pc[c] = "to_vec"
    /\ VecLen(snapshot[c]) < VecLen(particles)
    /\ snapshot' = [snapshot EXCEPT ![c] =
                       [k \in 0 .. VecLen(snapshot[c]) |->
                           IF k < VecLen(snapshot[c]) THEN snapshot[c][k] ELSE particles[k]]]
    /\ UNCHANGED <<config_vars, particles, lock_holder, main_vars, move_vars,
                   coll_pc, coll_elapsed, collision_count, scan_i, scan_j, scan_base, committed, late_copy_backs, poisoned>>

\* variant: the inner loop starts at i instead of i + 1
NextPairFromI(i, j, len) ==
    IF j + 1 < len THEN <<i, j + 1>>
    ELSE IF i + 1 < len THEN <<i + 1, i + 1>>
    ELSE <<len, len + 1>>

\* the pair after (i, j) in "for i in 0..len { for j in i + 1..len {" order;
\* <<len, len + 1>> when the loops are over
NextPair(i, j, len) ==
    IF j + 1 < len THEN <<i, j + 1>>
    ELSE IF i + 2 < len THEN <<i + 1, i + 2>>
    ELSE <<len, len + 1>>

FirstPair(len) == IF 1 < len THEN <<0, 1>> ELSE <<len, len + 1>>

\* the guard is dropped at the end of the block; the scan loops are entered
CollisionUnlock(c) ==
    /\ coll_pc[c] = "to_vec"
    /\ VecLen(snapshot[c]) = VecLen(particles)
    /\ MutexUnlock(CollisionThread(c))
    /\ scan_i' = [scan_i EXCEPT ![c] = FirstPair(VecLen(snapshot[c]))[1]]
    /\ scan_j' = [scan_j EXCEPT ![c] = FirstPair(VecLen(snapshot[c]))[2]]
    /\ scan_base' = [scan_base EXCEPT ![c] = collision_count[c]]
    /\ coll_pc' = [coll_pc EXCEPT ![c] = "scan"]
    /\ UNCHANGED <<config_vars, particles, main_vars, move_vars,
                   coll_elapsed, collision_count, snapshot, committed, late_copy_backs, poisoned>>

\* one pass of the inner loop body for the pair (i, j)  (lines 113-115)
CollisionScan(c) ==
    /\ coll_pc[c] = "scan"
    /\ scan_i[c] < VecLen(snapshot[c])
    /\ LET i == scan_i[c]
           j == scan_j[c]
           next == NextPair(i, j, VecLen(snapshot[c]))
       IN  /\ collision_count' = [collision_count EXCEPT ![c] =
                  IF perform_collision_check(snapshot[c][i], snapshot[c][j])
                  THEN collision_count[c] + 1 ELSE collision_count[c]]
           /\ scan_i' = [scan_i EXCEPT ![c] = next[1]]
           /\ scan_j' = [scan_j EXCEPT ![c] = next[2]]
    /\ UNCHANGED <<config_vars, particles, lock_holder, main_vars, move_vars,
                   coll_pc, coll_elapsed, snapshot, scan_base, committed, late_copy_backs, poisoned>>

\* the loops are over: the snapshot goes out of scope, back to the while test
CollisionScanEnd(c) ==
    /\ coll_pc[c] = "scan"
    /\ scan_i[c] >= VecLen(snapshot[c])
    /\ coll_pc' = [coll_pc EXCEPT ![c] = "loop"]
    /\ snapshot' = [snapshot EXCEPT ![c] = <<>>]
    /\ scan_i' = [scan_i EXCEPT ![c] = 0]
    /\ scan_j' = [scan_j EXCEPT ![c] = 0]
    /\ scan_base' = [scan_base EXCEPT ![c] = 0]
    /\ UNCHANGED <<config_vars, particles, lock_holder, main_vars, move_vars,
                   coll_elapsed, collision_count, committed, late_copy_backs, poisoned>>

\* println!("{} collisions occured", collision_count); the job returns
CollisionReport(c) ==
    /\ coll_pc[c] = "report"
    /\ coll_pc' = [coll_pc EXCEPT ![c] = "finished"]
    /\ UNCHANGED <<config_vars, particles, lock_holder, main_vars, move_vars,
                   coll_elapsed, collision_count, snapshot, scan_i, scan_j, scan_base, committed, late_copy_backs, poisoned>>

\* line 107 on a poisoned mutex: lock() returns Err and unwrap() panics
CollisionLockPoisoned(c) ==
    /\ coll_pc[c] = "lock"
    /\ lock_holder = NoHolder /\ poisoned
    /\ coll_pc' = [coll_pc EXCEPT ![c] = "panicked"]
    /\ UNCHANGED <<config_vars, particles, lock_holder, main_vars, move_vars,
                   coll_elapsed, collision_count, snapshot, scan_i, scan_j, scan_base,
                   committed, late_copy_backs, poisoned>>

Collider(c) ==
    \/ CollisionStart(c) \/ CollisionLoop(c) \/ CollisionLock(c) \/ CollisionToVec(c)
    \/ CollisionUnlock(c) \/ CollisionScan(c) \/ CollisionScanEnd(c) \/ CollisionReport(c)

\* ---- the specifications ----
\* The state after Arc::new(Mutex::new(ParticleSystem::new())) for a
\* configuration (count, threads, time).
InitConfig(count, threads, time) ==
    /\ particle_count = count
    /\ thread_count = threads
    /\ simulation_time = time
    /\ particles = ParticleSystem_new(count)
    /\ lock_holder = NoHolder
    /\ main_pc = "lock_len"
    /\ particles_len = 0
    /\ chunk_size = 0
    /\ spawn_i = 0
    /\ stdout = <<>>
    /\ move_pc = [m \in 0 .. (threads - 1) |-> "unspawned"]
    /\ chunk_idx = [m \in 0 .. (threads - 1) |-> 0]
    /\ chunk_len = [m \in 0 .. (threads - 1) |-> 0]
    /\ move_elapsed = [m \in 0 .. (threads - 1) |-> 0]
    /\ iterations = [m \in 0 .. (threads - 1) |-> 0]
    /\ local_chunk = [m \in 0 .. (threads - 1) |-> <<>>]
    /\ committed = [m \in 0 .. (threads - 1) |-> <<>>]
    /\ late_copy_backs = [m \in 0 .. (threads - 1) |-> 0]
    /\ poisoned = FALSE
    /\ coll_pc = [c \in Colliders |-> "unspawned"]
    /\ coll_elapsed = [c \in Colliders |-> 0]
    /\ collision_count = [c \in Colliders |-> 0]
    /\ snapshot = [c \in Colliders |-> <<>>]
    /\ scan_i = [c \in Colliders |-> 0]
    /\ scan_j = [c \in Colliders |-> 0]
    /\ scan_base = [c \in Colliders |-> 0]

Init ==
    \E count \in 1 .. MaxParticles, threads \in 1 .. MaxThreads, time \in 0 .. MaxSimulationTime :
        InitConfig(count, threads, time)

Next ==
    \/ Tick
    \/ Main
    \/ \E m \in Movers : Mover(m)
    \/ \E c \in Colliders : Collider(c)

Spec == Init /\ [][Next]_vars

\* The workers are OS threads and the clock is the machine's: each of them
\* that can take a step eventually takes one.  The mutex promises no order.
FairSpec ==
    /\ Init
    /\ [][Next]_vars
    /\ WF_vars(Tick)
    /\ WF_vars(Main)
    /\ \A m \in 0 .. (MaxThreads - 1) : WF_vars(m \in Movers /\ Mover(m))
    /\ \A c \in Colliders : WF_vars(Collider(c))

\* The partitioning of main alone, over more configurations than the
\* concurrent model covers, the shipped one (100 particles, 10 threads) included.
PartitionInit ==
    \E count \in (1 .. MaxPartitionParticles) \cup {PARTICLE_COUNT},
       threads \in (1 .. MaxPartitionThreads) \cup {THREAD_COUNT} :
        InitConfig(count, threads, SIMULATION_TIME_SECONDS)

PartitionNext == MainLockLen \/ MainReadLen \/ MainSpawnMover

PartitionSpec == PartitionInit /\ [][PartitionNext]_vars

\* The collision thread's snapshot and scan alone, over a buffer of three
\* particles whose first two have been published by two movers anywhere on
\* the grid 0 .. MaxGridCoord hundredths (the third is in no mover's range).
GridParticles == {Particle(gx, gy) : gx \in 0 .. MaxGridCoord, gy \in 0 .. MaxGridCoord}

OverlapInit ==
    \E a \in GridParticles, b \in GridParticles :
        /\ particle_count = 3
        /\ thread_count = 2
        /\ simulation_time = 1
        /\ particles = (0 :> a) @@ (1 :> b) @@ (2 :> Particle(0, 0))
        /\ lock_holder = NoHolder
        /\ poisoned = FALSE
        /\ main_pc = "join_pool"
        /\ particles_len = 3
        /\ chunk_size = 1
        /\ spawn_i = 0
        /\ stdout = <<>>
        /\ move_pc = (0 :> "finished") @@ (1 :> "finished")
        /\ chunk_idx = (0 :> ChunkIdx(0, 1)) @@ (1 :> ChunkIdx(1, 1))
        /\ chunk_len = (0 :> ChunkLen(0, 1, 3)) @@ (1 :> ChunkLen(1, 1, 3))
        /\ move_elapsed = (0 :> 1) @@ (1 :> 1)
        /\ iterations = (0 :> 1) @@ (1 :> 1)
        /\ local_chunk = (0 :> (0 :> a)) @@ (1 :> (0 :> b))
        /\ committed = (0 :> (0 :> a)) @@ (1 :> (0 :> b))
        /\ late_copy_backs = (0 :> 0) @@ (1 :> 0)
        /\ coll_pc = [c \in Colliders |-> "lock"]
        /\ coll_elapsed = [c \in Colliders |-> 0]
        /\ collision_count = [c \in Colliders |-> 0]
        /\ snapshot = [c \in Colliders |-> <<>>]
        /\ scan_i = [c \in Colliders |-> 0]
        /\ scan_j = [c \in Colliders |-> 0]
        /\ scan_base = [c \in Colliders |-> 0]

OverlapNext ==
    \E c \in Colliders :
        \/ CollisionLock(c) \/ CollisionToVec(c) \/ CollisionUnlock(c)
        \/ CollisionScan(c) \/ CollisionScanEnd(c)

OverlapSpec == OverlapInit /\ [][OverlapNext]_vars

\* The final dump of main alone, over more particles than the concurrent
\* model covers: one mover has published its range [0, count - 1) and
\* finished, the collision thread has finished, main is about to lock.
DumpInit ==
    \E count \in 1 .. MaxDumpParticles, p \in MovedParticles :
        LET len == ChunkLen(0, count, count)
            chunk == [k \in 0 .. (len - 1) |-> p]
        IN  /\ particle_count = count
            /\ thread_count = 1
            /\ simulation_time = 1
            /\ particles = CopyFromSlice(ParticleSystem_new(count), 0, len, chunk)
            /\ lock_holder = NoHolder
            /\ poisoned = FALSE
            /\ main_pc = "lock_dump"
            /\ particles_len = count
            /\ chunk_size = count
            /\ spawn_i = 0
            /\ stdout = <<>>
            /\ move_pc = (0 :> "finished")
            /\ chunk_idx = (0 :> 0)
            /\ chunk_len = (0 :> len)
            /\ move_elapsed = (0 :> 1)
            /\ iterations = (0 :> 1)
            /\ local_chunk = (0 :> chunk)
            /\ committed = (0 :> chunk)
            /\ late_copy_backs = (0 :> 0)
            /\ coll_pc = [c \in Colliders |-> "finished"]
            /\ coll_elapsed = [c \in Colliders |-> 1]
            /\ collision_count = [c \in Colliders |-> 0]
            /\ snapshot = [c \in Colliders |-> <<>>]
            /\ scan_i = [c \in Colliders |-> 0]
            /\ scan_j = [c \in Colliders |-> 0]
            /\ scan_base = [c \in Colliders |-> 0]

DumpNext == MainLockDump \/ MainDump \/ MainExit

DumpSpec == DumpInit /\ [][DumpNext]_vars

\* A run in which a mover reaches u32::MAX iterations: two particles, two
\* movers (ranges [0, 1) and [1, 1)); the first mover is in its loop with
\* iterations = u32::MAX, the second and the collision thread are queued,
\* main waits in pool.join().  Here a guard holder can panic, so the
\* failing lock().unwrap() of every thread is part of the next-state relation.
PoisonInit ==
    \E p \in MovedParticles :
        /\ particle_count = 2
        /\ thread_count = 2
        /\ simulation_time = 1
        /\ particles = (0 :> p) @@ (1 :> Particle(0, 0))
        /\ lock_holder = NoHolder
        /\ poisoned = FALSE
        /\ main_pc = "join_pool"
        /\ particles_len = 2
        /\ chunk_size = 1
        /\ spawn_i = 0
        /\ stdout = <<>>
        /\ move_pc = (0 :> "move") @@ (1 :> "queued")
        /\ chunk_idx = (0 :> ChunkIdx(0, 1)) @@ (1 :> ChunkIdx(1, 1))
        /\ chunk_len = (0 :> ChunkLen(0, 1, 2)) @@ (1 :> ChunkLen(1, 1, 2))
        /\ move_elapsed = (0 :> 0) @@ (1 :> 0)
        /\ iterations = (0 :> U32Max) @@ (1 :> 0)
        /\ local_chunk = (0 :> (0 :> p)) @@ (1 :> <<>>)
        /\ committed = (0 :> (0 :> p)) @@ (1 :> <<>>)
        /\ late_copy_backs = (0 :> 0) @@ (1 :> 0)
        /\ coll_pc = [c \in Colliders |-> "queued"]
        /\ coll_elapsed = [c \in Colliders |-> 0]
        /\ collision_count = [c \in Colliders |-> 0]
        /\ snapshot = [c \in Colliders |-> <<>>]
        /\ scan_i = [c \in Colliders |-> 0]
        /\ scan_j = [c \in Colliders |-> 0]
        /\ scan_base = [c \in Colliders |-> 0]

PoisonNext ==
    \/ Tick
    \/ MainJoinPool \/ MainJoinCollision \/ MainLockDump \/ MainDump \/ MainExit
    \/ MainLockDumpPoisoned
    \/ \E m \in Movers :
           \/ Mover(m)
           \/ MoverIncrementPanic(m) \/ MoverIncrementWrap(m) \/ MoverLockPoisoned(m)
    \/ \E c \in Colliders : Collider(c) \/ CollisionLockPoisoned(c)

PoisonSpec == PoisonInit /\ [][PoisonNext]_vars

\* The movers against their deadline: three particles, two movers (ranges
\* [0, 1) and [1, 2)), both queued, each allowed several loop iterations; the
\* collision thread has returned and main waits in pool.join().
DeadlineInit ==
    /\ particle_count = 3
    /\ thread_count = 2
    /\ simulation_time = MaxSimulationTime
    /\ particles = ParticleSystem_new(3)
    /\ lock_holder = NoHolder
    /\ poisoned = FALSE
    /\ main_pc = "join_pool"
    /\ particles_len = 3
    /\ chunk_size = 1
    /\ spawn_i = 0
    /\ stdout = <<>>
    /\ move_pc = (0 :> "queued") @@ (1 :> "queued")
    /\ chunk_idx = (0 :> ChunkIdx(0, 1)) @@ (1 :> ChunkIdx(1, 1))
    /\ chunk_len = (0 :> ChunkLen(0, 1, 3)) @@ (1 :> ChunkLen(1, 1, 3))
    /\ move_elapsed = (0 :> 0) @@ (1 :> 0)
    /\ iterations = (0 :> 0) @@ (1 :> 0)
    /\ local_chunk = (0 :> <<>>) @@ (1 :> <<>>)
    /\ committed = (0 :> <<>>) @@ (1 :> <<>>)
    /\ late_copy_backs = (0 :> 0) @@ (1 :> 0)
    /\ coll_pc = [c \in Colliders |-> "finished"]
    /\ coll_elapsed = [c \in Colliders |-> 0]
    /\ collision_count = [c \in Colliders |-> 0]
    /\ snapshot = [c \in Colliders |-> <<>>]
    /\ scan_i = [c \in Colliders |-> 0]
    /\ scan_j = [c \in Colliders |-> 0]
    /\ scan_base = [c \in Colliders |-> 0]

DeadlineNext ==
    \/ Tick
    \/ MainJoinPool
    \/ \E m \in Movers :
           \/ MoverStart(m) \/ MoverLockInit(m) \/ MoverCopyOut(m)
           \/ MoverLoopUpTo(m, MaxDeadlineIterations)
           \/ MoverRandomMove(m) \/ MoverLockWrite(m) \/ MoverCopyBack(m)
           \/ MoverIncrement(m) \/ MoverReport(m)

DeadlineSpec == DeadlineInit /\ [][DeadlineNext]_vars

\* ---- vocabulary of the properties ----
Spawned(m) == move_pc[m] # "unspawned"
ChunkRange(m) == chunk_idx[m] .. (chunk_idx[m] + chunk_len[m] - 1)
Origin == Particle(0, 0)
InitialChunk(m) == [k \in 0 .. (chunk_len[m] - 1) |-> Origin]
AllSpawned == main_pc \notin {"lock_len", "read_len", "spawn_move"}
AllFinished ==
    /\ \A m \in Movers : move_pc[m] = "finished"
    /\ \A c \in Colliders : coll_pc[c] = "finished"

Threads ==
    {MainThread} \cup {MoveThread(m) : m \in Movers} \cup {CollisionThread(c) : c \in Colliders}

\* the thread is at a statement inside the scope of a MutexGuard it took
InGuardScope(t) ==
    \/ t = MainThread /\ main_pc \in {"read_len", "dump", "exit"}
    \/ \E m \in Movers : t = MoveThread(m) /\ move_pc[m] \in {"copy_out", "copy_back", "increment"}
    \/ \E c \in Colliders : t = CollisionThread(c) /\ coll_pc[c] = "to_vec"

\* the thread's next statement reads or writes ParticleSystem.particles
AtBufferAccess(t) ==
    \/ t = MainThread /\ main_pc \in {"read_len", "dump"}
    \/ \E m \in Movers : t = MoveThread(m) /\ move_pc[m] \in {"copy_out", "copy_back"}
    \/ \E c \in Colliders : t = CollisionThread(c) /\ coll_pc[c] = "to_vec"

\* ---- C1 ----
\* C1: at most one thread is inside the scope of a guard of the mutex, that
\* thread is the one the mutex records as its holder, and every thread about
\* to read or write the buffer (main's len() and dump, a mover's copy-out and
\* copy-back, the collision thread's to_vec) is that holder.
C1_MutualExclusion ==
    /\ \A t1, t2 \in Threads : InGuardScope(t1) /\ InGuardScope(t2) => t1 = t2
    /\ \A t \in Threads : InGuardScope(t) => lock_holder = t
    /\ \A t \in Threads : AtBufferAccess(t) => InGuardScope(t) /\ lock_holder = t

\* a mover is about to copy back while the collision thread waits for the lock
C1_Witness ==
    \E m \in Movers, c \in Colliders :
        /\ move_pc[m] = "copy_back" /\ chunk_len[m] > 0
        /\ coll_pc[c] = "lock"
        /\ lock_holder = MoveThread(m)

\* ---- C2 ----
SnapshotTaken(c) == coll_pc[c] = "to_vec" /\ VecLen(snapshot[c]) = VecLen(particles)

\* what mover m has published: its last whole copy-back, else the initial contents
Published(m) ==
    IF iterations[m] = 0 /\ move_pc[m] # "increment" THEN InitialChunk(m) ELSE committed[m]

\* C2: when the collision thread has taken a snapshot, the snapshot restricted
\* to each mover's range is the initial contents of the range or exactly the
\* chunk that mover last copied back in one whole copy-back; no range of a
\* snapshot mixes values from before and after a copy-back.
C2_SnapshotNotTorn ==
    \A c \in Colliders : SnapshotTaken(c) =>
        \A m \in Movers :
            SliceToVec(snapshot[c], chunk_idx[m], chunk_len[m]) = Published(m)

\* a snapshot that holds a chunk of two particles a mover published, not the initial one
C2_Witness ==
    \E c \in Colliders, m \in Movers :
        /\ SnapshotTaken(c)
        /\ chunk_len[m] = 2
        /\ iterations[m] > 0
        /\ SliceToVec(snapshot[c], chunk_idx[m], chunk_len[m]) # InitialChunk(m)

\* ---- C3 ----
\* C3: with 100 particles and 10 movers, mover i (0 <= i <= 8) is given
\* [10 i, 10 i + 10), mover 9 is given [90, 99), and index 99 is in no range.
C3_DefaultPartition ==
    (particle_count = 100 /\ thread_count = 10) =>
        \A m \in Movers : Spawned(m) =>
            /\ chunk_idx[m] = 10 * m
            /\ chunk_len[m] = IF m <= 8 THEN 10 ELSE 9
            /\ 99 \notin ChunkRange(m)

C3_Witness ==
    /\ particle_count = 100 /\ thread_count = 10
    /\ main_pc = "spawn_collision"
    /\ \A m \in Movers : Spawned(m)
    /\ ChunkRange(9) = 90 .. 98

\* ---- C4 ----
\* C4: for every particle count >= 1 and mover count >= 1, the (start, len)
\* passed to each mover has start >= 0, len >= 0 and start + len <= count - 1,
\* so every range lies inside the buffer.
C4_RangeInBounds ==
    \A m \in Movers : Spawned(m) =>
        /\ chunk_idx[m] >= 0
        /\ chunk_len[m] >= 0
        /\ chunk_idx[m] + chunk_len[m] <= particle_count - 1
        /\ ChunkRange(m) \subseteq DOMAIN particles

\* the clamp has shortened a range
C4_Witness ==
    \E m \in Movers : Spawned(m) /\ chunk_len[m] < chunk_size /\ chunk_len[m] > 0

\* ---- C5 ----
\* C5: the ranges of two distinct movers share no index.
C5_RangesDisjoint ==
    \A m1, m2 \in Movers :
        (m1 # m2 /\ Spawned(m1) /\ Spawned(m2)) => ChunkRange(m1) \cap ChunkRange(m2) = {}

\* three movers with ranges of at least two indices each
C5_Witness ==
    /\ thread_count >= 3
    /\ \A m \in Movers : Spawned(m) /\ chunk_len[m] >= 2

\* ---- C6 ----
\* C6: a step that changes the buffer is the copy-back of one mover, the
\* buffer keeps its length, and every index outside that mover's range
\* keeps its value; no step of the collision thread or of main changes it.
C6_OnlyOwnRangeWritten ==
    [][particles' # particles =>
          \E m \in Movers :
              /\ move_pc[m] = "copy_back" /\ move_pc'[m] = "increment"
              /\ DOMAIN particles' = DOMAIN particles
              /\ \A i \in DOMAIN particles :
                     i \notin ChunkRange(m) => particles'[i] = particles[i]]_vars

\* the second mover has copied back a chunk that is not the initial one
C6_Witness ==
    \E m \in Movers :
        /\ m > 0
        /\ move_pc[m] = "increment"
        /\ chunk_len[m] > 0
        /\ SliceToVec(particles, chunk_idx[m], chunk_len[m]) # InitialChunk(m)

\* ---- C7 ----
\* C7: if the clock keeps advancing and every thread that can step does
\* (weak fairness), every mover and the collision thread finish and main
\* completes the dump and returns.
C7_Terminates == <>(AllFinished /\ main_pc = "done")

\* the run has ended after some mover waited for the lock and wrote
C7_Witness ==
    /\ AllFinished /\ main_pc = "done"
    /\ simulation_time > 0
    /\ \E m \in Movers : iterations[m] > 0

\* ---- C8 ----
\* C8: main holds the lock for the dump only when every worker is Finished,
\* and what it printed is the buffer as it is from then on: nothing is
\* written at or after the acquisition.
C8_DumpIsFinal ==
    /\ main_pc \in {"dump", "exit", "done"} => AllFinished
    /\ main_pc \in {"exit", "done"} => stdout = debug_print_particles(particles)

\* the dump of a buffer some mover has changed
C8_Witness ==
    /\ main_pc = "exit"
    /\ \E i \in DOMAIN particles : particles[i] # Origin

\* ---- C9 ----
NoCopyBackYet == \A m \in Movers : iterations[m] = 0 /\ move_pc[m] # "increment"

\* C9: while no mover has completed a copy-back every particle is at (0,0);
\* with a duration of 0 no mover enters its loop and the dump shows every
\* particle at (0,0).
C9_OriginUntilMoved ==
    /\ NoCopyBackYet => \A i \in DOMAIN particles : particles[i] = Origin
    /\ simulation_time = 0 =>
          /\ \A m \in Movers : move_pc[m] \notin {"move", "lock_write", "copy_back", "increment"}
          /\ main_pc \in {"exit", "done"} =>
                 stdout = debug_print_particles(ParticleSystem_new(particle_count))

\* a run with duration 0 has printed its dump
C9_Witness ==
    /\ simulation_time = 0
    /\ main_pc = "done"
    /\ particle_count >= 2
    /\ \A m \in Movers : iterations[m] = 0

\* ---- C10 ----
\* the index pairs (a, b), a < b, of a vector of length len
Pairs(len) == {p \in (0 .. (len - 1)) \X (0 .. (len - 1)) : p[1] < p[2]}

\* pairs the loops visit before they reach (i, j)
VisitedBefore(i, j, len) == {p \in Pairs(len) : p[1] < i \/ (p[1] = i /\ p[2] < j)}

Overlapping(v, pairs) == {p \in pairs : perform_collision_check(v[p[1]], v[p[2]])}

ScanOver(c) == coll_pc[c] = "scan" /\ scan_i[c] >= VecLen(snapshot[c])

\* C10 as stated: the counter starts at 0 and changes only in the step that
\* ends a scan, which adds the number of overlapping pairs of the snapshot.
C10_ChangesOnlyAtScanEnd ==
    [][\A c \in Colliders :
          collision_count'[c] # collision_count[c] =>
              /\ coll_pc[c] = "scan"
              /\ scan_i'[c] >= VecLen(snapshot[c])
              /\ collision_count'[c] =
                     scan_base[c]
                     + Cardinality(Overlapping(snapshot[c], Pairs(VecLen(snapshot[c]))))]_vars

\* C10, amended: the counter starts at 0; it changes only inside a scan, by
\* one, when the pair being visited overlaps; at every point of a scan it is
\* its value at the start of the scan plus the number of overlapping pairs
\* visited so far, so a finished scan has added exactly the number of pairs
\* (i, j), i < j, that overlap in its snapshot.  It never decreases and is
\* never reset.
C10_CountsOverlappingPairs ==
    /\ [](\A c \in Colliders :
            /\ coll_pc[c] \in {"unspawned", "queued"} => collision_count[c] = 0
            /\ coll_pc[c] = "scan" =>
                   collision_count[c] =
                       scan_base[c]
                       + Cardinality(Overlapping(snapshot[c],
                             VisitedBefore(scan_i[c], scan_j[c], VecLen(snapshot[c])))))
    /\ [][\A c \in Colliders :
             collision_count'[c] # collision_count[c] =>
                 /\ coll_pc[c] = "scan"
                 /\ collision_count'[c] = collision_count[c] + 1]_vars

\* a second scan in a row has ended, having counted a pair again
C10_Witness ==
    \E c \in Colliders :
        /\ ScanOver(c)
        /\ scan_base[c] > 0
        /\ collision_count[c] > scan_base[c]
        /\ VecLen(snapshot[c]) >= 3

\* ---- C11 ----
\* the squared Euclidean distance of two grid points, in 1/Unit^2
SquaredDistance(a, b) == (a.x - b.x) ^ 2 + (a.y - b.y) ^ 2

\* the scan has just visited the pair (0, 1) of its snapshot
VisitedFirstPair(c) ==
    coll_pc[c] = "scan" /\ VecLen(snapshot[c]) = 3 /\ scan_i[c] = 0 /\ scan_j[c] = 2

\* C11: for all particles a, b on the grid the scan counts the pair (a, b)
\* exactly when its squared distance is strictly less than 0.01; a pair at
\* squared distance exactly 0.01 is not counted; and the test gives the same
\* answer for (a, b) and (b, a).
C11_OverlapIffCloser ==
    \A c \in Colliders : VisitedFirstPair(c) =>
        LET a == snapshot[c][0]
            b == snapshot[c][1]
            counted == collision_count[c] = scan_base[c] + 1
        IN  /\ collision_count[c] \in {scan_base[c], scan_base[c] + 1}
            /\ counted <=> (100 * SquaredDistance(a, b) < Unit * Unit)
            /\ (100 * SquaredDistance(a, b) = Unit * Unit) => ~counted
            /\ perform_collision_check(a, b) = counted
            /\ perform_collision_check(b, a) = counted

\* a pair at squared distance exactly 0.01, off the axes, was visited and not counted
C11_Witness ==
    \E c \in Colliders :
        /\ VisitedFirstPair(c)
        /\ snapshot[c][0].x - snapshot[c][1].x = 6
        /\ snapshot[c][1].y - snapshot[c][0].y = 8
        /\ collision_count[c] = scan_base[c]

\* ---- C12 ----
Dumped == main_pc \in {"exit", "done"}

\* the lines of particles: all lines of the dump but the separator
ParticleLines == SubSeq(stdout, 1, Len(stdout) - 1)

RECURSIVE Concat(_)
Concat(lines) == IF lines = <<>> THEN <<>> ELSE Head(lines) \o Concat(Tail(lines))

\* the entries of the dump list index 0 .. count - 1 once each, in order
ListsEveryIndexInOrder ==
    LET entries == Concat(ParticleLines)
    IN  /\ Len(entries) = particle_count
        /\ \A k \in 1 .. Len(entries) :
               entries[k] = <<k - 1, particles[k - 1].x, particles[k - 1].y>>

\* C12: the dump lists every index 0 .. count - 1 exactly once in increasing
\* order, every line the loop completes holds exactly five particles (the
\* last line of particles holds at most five), and the dump ends with one
\* separator line.
C12_FivePerLine ==
    Dumped =>
        /\ Len(stdout) >= 2
        /\ stdout[Len(stdout)] = <<"----">>
        /\ \A k \in 1 .. Len(ParticleLines) : ParticleLines[k] # <<"----">>
        /\ ListsEveryIndexInOrder
        /\ \A k \in 1 .. (Len(ParticleLines) - 1) : Len(ParticleLines[k]) = 5
        /\ Len(ParticleLines[Len(ParticleLines)]) <= 5

\* ---- C13 ----
\* C13: once a holder has panicked while it held the guard, no thread is
\* ever inside the scope of a guard again (so no thread reads or writes the
\* buffer, which keeps its contents), and a thread whose lock().unwrap()
\* failed stays aborted: it takes no further step and does not retry.
C13_PoisonAborts ==
    /\ [](poisoned => \A t \in Threads : ~InGuardScope(t) /\ lock_holder # t)
    /\ [][/\ poisoned => (poisoned' /\ particles' = particles /\ stdout' = stdout)
          /\ \A m \in Movers : move_pc[m] = "panicked" =>
                 /\ move_pc'[m] = "panicked"
                 /\ local_chunk'[m] = local_chunk[m]
                 /\ iterations'[m] = iterations[m]
          /\ \A c \in Colliders : coll_pc[c] = "panicked" =>
                 /\ coll_pc'[c] = "panicked"
                 /\ snapshot'[c] = snapshot[c]
                 /\ collision_count'[c] = collision_count[c]
          /\ main_pc = "panicked" => main_pc' = "panicked"]_vars

\* the second mover, the collision thread and main have each failed to lock
C13_Witness ==
    /\ poisoned
    /\ move_pc[0] = "panicked" /\ move_pc[1] = "panicked"
    /\ \A c \in Colliders : coll_pc[c] = "panicked"
    /\ main_pc = "panicked"

\* ---- C14 ----
\* C14: when particle_count is a positive exact multiple of thread_count, the
\* last index particle_count - 1 is in no mover's range and its particle is at
\* (0, 0) in every state, and the dump prints it at (0, 0).
C14_LastParticleNeverMoves ==
    (particle_count >= 1 /\ particle_count % thread_count = 0) =>
        LET last == particle_count - 1
        IN  /\ \A m \in Movers : Spawned(m) => last \notin ChunkRange(m)
            /\ particles[last] = Origin
            /\ Dumped => Concat(ParticleLines)[particle_count] = <<last, 0, 0>>

\* a finished run of two movers over two particles in which particle 0 was moved
C14_Witness ==
    /\ main_pc = "done"
    /\ particle_count = 2 /\ thread_count = 2
    /\ particles[0] # Origin
    /\ Concat(ParticleLines)[particle_count] = <<1, 0, 0>>

CopyBacksCompleted(m) == iterations[m] + (IF move_pc[m] = "increment" THEN 1 ELSE 0)

SnapshotSlice(c, m) == SliceToVec(snapshot[c], chunk_idx[m], chunk_len[m])

\* C16: what a snapshot holds in a mover's range depends on that mover's own
\* copy-backs only: the range holds values other than the initial (0, 0) only
\* if that mover has completed a copy-back, however many the other movers have
\* completed; the lock orders nothing else.  That a snapshot can hold one
\* mover's published values next to another mover's initial values is the
\* reachable state C16_Witness.
C16_RangesAdvanceIndependently ==
    \A c \in Colliders : SnapshotTaken(c) =>
        \A m \in Movers :
            SnapshotSlice(c, m) # InitialChunk(m) => CopyBacksCompleted(m) >= 1

\* a snapshot of two non-empty ranges: mover 0 has published a moved chunk,
\* mover 1 has completed no copy-back and its range is still (0, 0)
C16_Witness ==
    \E c \in Colliders :
        /\ SnapshotTaken(c)
        /\ thread_count = 2 /\ chunk_len[0] >= 1 /\ chunk_len[1] >= 1
        /\ CopyBacksCompleted(0) >= 1 /\ CopyBacksCompleted(1) = 0
        /\ SnapshotSlice(c, 0) = committed[0] /\ SnapshotSlice(c, 0) # InitialChunk(0)
        /\ SnapshotSlice(c, 1) = InitialChunk(1)

\* ---- C17 ----
\* after the copy-out, and not between random_move_particles and the end of
\* the matching copy-back
InSync(m) == move_pc[m] \in {"loop", "move", "increment", "report", "finished"}

\* C17: whenever a mover is past its copy-out and not between resampling its
\* local buffer and completing the copy-back of it, the shared buffer over the
\* mover's range equals the mover's local buffer; and once the dump is
\* printed, the entries of each mover's range are that mover's last local buffer.
C17_BufferMatchesLocalChunk ==
    \A m \in Movers :
        /\ InSync(m) => SliceToVec(particles, chunk_idx[m], chunk_len[m]) = local_chunk[m]
        /\ Dumped =>
               \A k \in 0 .. (chunk_len[m] - 1) :
                   Concat(ParticleLines)[chunk_idx[m] + k + 1] =
                       <<chunk_idx[m] + k, local_chunk[m][k].x, local_chunk[m][k].y>>

\* the dump of a run in which the second mover published a moved chunk
C17_Witness ==
    /\ main_pc = "done"
    /\ thread_count = 2
    /\ move_pc[1] = "finished" /\ iterations[1] >= 1
    /\ chunk_len[1] >= 1 /\ local_chunk[1] # InitialChunk(1)
    /\ SliceToVec(particles, chunk_idx[1], chunk_len[1]) = local_chunk[1]

\* ---- C18 ----
\* the loop test of line 87 has evaluated to false
LoopLeft(m) == move_pc[m] \in {"report", "finished"}

\* C18: a mover completes at most one copy-back at or after the moment its
\* elapsed time reached simulation_time, and none once its loop test has
\* evaluated to false: from then on it writes nothing and stays out of the loop.
C18_AtMostOneLateCopyBack ==
    /\ [](\A m \in Movers : late_copy_backs[m] <= 1)
    /\ [][\A m \in Movers : LoopLeft(m) =>
             /\ LoopLeft(m)'
             /\ iterations'[m] = iterations[m]
             /\ committed'[m] = committed[m]
             /\ late_copy_backs'[m] = late_copy_backs[m]
             /\ SliceToVec(particles', chunk_idx[m], chunk_len[m]) =
                    SliceToVec(particles, chunk_idx[m], chunk_len[m])]_vars

\* a mover that completed one copy-back before its deadline and one after it,
\* and has left its loop
C18_Witness ==
    \E m \in Movers :
        /\ LoopLeft(m)
        /\ iterations[m] = 2
        /\ late_copy_backs[m] = 1
        /\ move_elapsed[m] = simulation_time

\* ---- C19 ----
\* the indices given to some mover
Assigned == UNION {ChunkRange(m) : m \in {n \in Movers : Spawned(n)}}

\* C19: for every particle count >= 1 and mover count >= 1, a mover's range is
\* shorter than chunk_size only for the last mover and only when the particle
\* count is a multiple of the mover count; once all movers are spawned the
\* ranges cover exactly [0, count - 1) in that case and exactly
\* [0, movers * chunk_size) otherwise, which leaves the last
\* count mod movers indices to no mover.
C19_ClampAndCoverage ==
    LET multiple == particle_count % thread_count = 0
    IN  /\ \A m \in Movers : (Spawned(m) /\ chunk_len[m] # chunk_size) =>
               /\ chunk_len[m] < chunk_size
               /\ m = thread_count - 1
               /\ multiple
        /\ main_pc = "spawn_collision" =>
               /\ chunk_size = particle_count \div thread_count
               /\ multiple => Assigned = 0 .. (particle_count - 2)
               /\ ~multiple =>
                      /\ Assigned = 0 .. (thread_count * chunk_size - 1)
                      /\ (DOMAIN particles) \ Assigned =
                             (particle_count - (particle_count % thread_count)) ..
                                 (particle_count - 1)
                      /\ Cardinality((DOMAIN particles) \ Assigned) =
                             particle_count % thread_count

\* eleven particles over four movers: nothing is clamped, [0, 8) is covered and
\* the last three indices are left over
C19_Witness ==
    /\ main_pc = "spawn_collision"
    /\ particle_count = 11 /\ thread_count = 4
    /\ \A m \in Movers : Spawned(m) /\ chunk_len[m] = 2
    /\ (DOMAIN particles) \ Assigned = 8 .. 10

\* ---- C20 ----
\* the thread is at a lock().unwrap()
AtLock(t) ==
    \/ t = MainThread /\ main_pc \in {"lock_len", "lock_dump"}
    \/ \E m \in Movers : t = MoveThread(m) /\ move_pc[m] \in {"lock_init", "lock_write"}
    \/ \E c \in Colliders : t = CollisionThread(c) /\ coll_pc[c] = "lock"

\* the thread that holds the lock has a step to take
HolderCanStep ==
    \/ lock_holder = MainThread /\ ENABLED Main
    \/ \E m \in Movers : lock_holder = MoveThread(m)
                          /\ ENABLED (Mover(m) \/ MoverIncrementPanic(m) \/ MoverIncrementWrap(m))
    \/ \E c \in Colliders : lock_holder = CollisionThread(c) /\ ENABLED Collider(c)

\* C20: a worker that has left its loop holds no guard, so when all workers
\* are finished the lock is free and main's lock() of line 157 succeeds; and
\* whenever a thread waits at a lock() for a lock that is held, the holder is
\* a thread inside its guard scope that can take its next step, which leads
\* to the release.
C20_LockAlwaysReleased ==
    /\ \A m \in Movers : move_pc[m] \in {"report", "finished"} => lock_holder # MoveThread(m)
    /\ \A c \in Colliders : coll_pc[c] \in {"report", "finished"} => lock_holder # CollisionThread(c)
    /\ AllFinished => lock_holder \in {NoHolder, MainThread}
    /\ (AllFinished /\ main_pc = "lock_dump") => (lock_holder = NoHolder /\ ENABLED MainLockDump)
    /\ \A t \in Threads : (AtLock(t) /\ lock_holder # NoHolder) =>
           /\ lock_holder # t
           /\ InGuardScope(lock_holder)
           /\ HolderCanStep

\* main has taken the lock for the dump after two movers, which each took and
\* dropped it twice, and the collision thread have finished
C20_Witness ==
    /\ main_pc = "dump" /\ lock_holder = MainThread
    /\ AllFinished
    /\ thread_count = 2
    /\ \A m \in Movers : iterations[m] = 1
    /\ \E c \in Colliders : collision_count[c] >= 1

====
